---- MODULE Spec2Model ----
(***************************************************************************)
(* logaware: a call-site aware logging facade (src/src/logaware).          *)
(*                                                                         *)
(* The model covers the logger types and their level registries            *)
(* (LoggerMetaClass), the generated level methods (log_method_factory),    *)
(* the generic log entry point, AwareLogger._log with caller resolution    *)
(* (_get_caller), message formatting (_format_message), the auxiliary      *)
(* payload (_get_extra, and its MetaAwareLogger override) and the record   *)
(* handed to the logging backend.                                          *)
(***************************************************************************)
EXTENDS Integers, Sequences, FiniteSets, TLC

VARIABLES
    types,        \* logger types defined so far: name -> class record
    levels,       \* backend: level set on each logger name (0 = NOTSET)
    meta,         \* LogMetaManager._meta read by the metadata accessor
    handleCount,  \* backend: number of records received by Logger.handle
    call,         \* the inputs of the last operation
    result,       \* the outcome of the last operation
    heap,         \* the list objects allocated so far: address -> items
    returned,     \* the successful set_meta calls: their fields and snapshot
    _meta_local,  \* _meta_local.meta of tests/example/loggers.py
    contexts      \* the `with log_meta_context(...)` blocks being executed

vars ==
    <<types, levels, meta, handleCount, call, result,
      heap, returned, _meta_local, contexts>>

\* The state of the metadata objects.
metavars == <<heap, returned, _meta_local, contexts>>

(***************************************************************************)
(* Bounds of the model.                                                    *)
(***************************************************************************)
\* Log calls are taken while the backend has handled fewer records.
MaxHandled == 2
\* Logger types defined on top of the ones the repository defines.
MaxTypes == 2

(***************************************************************************)
(* Python values: None, int, bool, str and tuples (exception info).        *)
(* One record shape, so that any two values can be compared.               *)
(***************************************************************************)
PyNone == [t |-> "none", i |-> 0, s |-> ""]
PyInt(n) == [t |-> "int", i |-> n, s |-> ""]
PyBool(b) == [t |-> "bool", i |-> IF b THEN 1 ELSE 0, s |-> ""]
PyStr(x) == [t |-> "str", i |-> 0, s |-> x]
\* A three-element exception info tuple (type, value, traceback) of the
\* exception class named x.
ExcTuple(x) == [t |-> "tuple", i |-> 3, s |-> x]
\* The triple (None, None, None) that sys.exc_info() returns when no exception
\* is being handled.
NoneTriple == [t |-> "tuple", i |-> 3, s |-> "None"]

\* bool(v)
Truthy(v) ==
    CASE v.t = "none" -> FALSE
      [] v.t = "int" -> v.i # 0
      [] v.t = "bool" -> v.i # 0
      [] v.t = "str" -> v.s # "" \/ v.i # 0
      [] v.t = "float" -> v.s # "0.0"
      [] v.t = "object" -> TRUE
      [] OTHER -> v.i # 0

\* str(v), which is format(v, '')
PyToStr(v) ==
    CASE v.t = "none" -> "None"
      [] v.t = "int" -> ToString(v.i)
      [] v.t = "bool" -> (IF v.i = 1 THEN "True" ELSE "False")
      [] v.t = "str" -> v.s
      [] OTHER -> "(" \o v.s \o ")"

\* format(v, spec): [err, text]. The 'd' presentation type accepts integers
\* (bool included) and nothing else.
PyFormat(v, spec) ==
    IF spec = "" THEN [err |-> "", text |-> PyToStr(v)]
    ELSE IF spec = "d" THEN
        CASE v.t \in {"int", "bool"} -> [err |-> "", text |-> ToString(v.i)]
          [] v.t = "str" -> [err |-> "ValueError", text |-> ""]
          [] OTHER -> [err |-> "TypeError", text |-> ""]
    ELSE [err |-> "ValueError", text |-> ""]

(***************************************************************************)
(* Message templates.  A template is the sequence of the parts str.format  *)
(* parses it into: literal text, an escaped brace ("{{" or "}}"), a named  *)
(* field {name} or {name:spec}, or a positional field {0}.                 *)
(***************************************************************************)
Lit(x) == [k |-> "lit", text |-> x, spec |-> ""]
Esc(x) == [k |-> "esc", text |-> x, spec |-> ""]
Field(n, sp) == [k |-> "field", text |-> n, spec |-> sp]
Index(n) == [k |-> "index", text |-> n, spec |-> ""]

\* The source text of one part.
PartText(p) ==
    CASE p.k = "lit" -> p.text
      [] p.k = "esc" -> p.text \o p.text
      [] OTHER -> "{" \o p.text \o (IF p.spec = "" THEN "" ELSE ":" \o p.spec) \o "}"

RECURSIVE TemplateText(_)
\* The template as the string the caller wrote.
TemplateText(tmpl) ==
    IF tmpl = <<>> THEN ""
    ELSE PartText(Head(tmpl)) \o TemplateText(Tail(tmpl))

RECURSIVE StrFormat(_, _)
\* message.format(**kwargs): [err, text].  Parts are substituted left to
\* right; the first failing field raises.
StrFormat(tmpl, kwargs) ==
    IF tmpl = <<>> THEN [err |-> "", text |-> ""]
    ELSE
        LET p == Head(tmpl)
            one ==
                CASE p.k = "lit" -> [err |-> "", text |-> p.text]
                  [] p.k = "esc" -> [err |-> "", text |-> p.text]
                  [] p.k = "index" -> [err |-> "IndexError", text |-> ""]
                  [] OTHER ->
                        IF p.text \in DOMAIN kwargs
                        THEN PyFormat(kwargs[p.text], p.spec)
                        ELSE [err |-> "KeyError", text |-> ""]
            rest == StrFormat(Tail(tmpl), kwargs)
        IN  IF one.err # "" THEN one
            ELSE IF rest.err # "" THEN rest
            ELSE [err |-> "", text |-> one.text \o rest.text]

(***************************************************************************)
(* Levels, generated level methods and logger types.                       *)
(***************************************************************************)
\* LogLevel(level, name, traceback=False)
LogLevel(level, name, traceback) ==
    [level |-> level, name |-> name, traceback |-> traceback]

\* The level values of the logging backend.
CRITICAL == LogLevel(50, "CRITICAL", FALSE)
ERROR == LogLevel(40, "ERROR", FALSE)
WARNING == LogLevel(30, "WARNING", FALSE)
INFO == LogLevel(20, "INFO", FALSE)
DEBUG == LogLevel(10, "DEBUG", FALSE)

\* A function object of a class body.  impl names the code it runs:
\* "log_method" (a generated level method), "log", "_get_extra" of
\* AwareLogger or "_get_extra_meta" of MetaAwareLogger.
Function(impl, name, level, traceback) ==
    [impl |-> impl, name |-> name, level |-> level, traceback |-> traceback]

\* log_method_factory(name, level, traceback=False): the method logs at
\* int(level); the factory's own traceback argument selects the variant that
\* defaults exc_info.  The level's traceback attribute is not read.
log_method_factory(name, level, traceback) ==
    Function("log_method", name, level.level, traceback)

\* One entry of a class body: a LogLevel or a function.
LevelAttr(key, lv) == [key |-> key, kind |-> "LogLevel", val |-> lv]
FunctionAttr(key, fn) == [key |-> key, kind |-> "function", val |-> fn]

\* The body of class AwareLogger, in source order.
AwareLoggerBody ==
    << LevelAttr("CRITICAL", CRITICAL), LevelAttr("FATAL", CRITICAL),
       LevelAttr("ERROR", ERROR), LevelAttr("WARNING", WARNING),
       LevelAttr("WARN", WARNING), LevelAttr("INFO", INFO),
       LevelAttr("DEBUG", DEBUG),
       FunctionAttr("error", log_method_factory("error", ERROR, FALSE)),
       FunctionAttr("exception", log_method_factory("exception", ERROR, TRUE)),
       FunctionAttr("critical", log_method_factory("critical", CRITICAL, FALSE)),
       FunctionAttr("fatal", log_method_factory("critical", CRITICAL, FALSE)),
       FunctionAttr("debug", log_method_factory("debug", DEBUG, FALSE)),
       FunctionAttr("info", log_method_factory("info", INFO, FALSE)),
       FunctionAttr("warning", log_method_factory("warning", WARNING, FALSE)),
       FunctionAttr("warn", log_method_factory("warning", WARNING, FALSE)),
       FunctionAttr("log", Function("log", "log", 0, FALSE)),
       FunctionAttr("_get_extra", Function("_get_extra", "_get_extra", 0, FALSE)) >>

\* The body of class MetaAwareLogger(AwareLogger).
MetaAwareLoggerBody ==
    << FunctionAttr("_get_extra",
                    Function("_get_extra_meta", "_get_extra", 0, FALSE)) >>

\* The body of class CustomLogger(AwareLogger) of tests/example/loggers.py.
AUDIT == LogLevel(99, "AUDIT", FALSE)
FAIL == LogLevel(100, "FAIL", FALSE)
CustomLoggerBody ==
    << LevelAttr("AUDIT", AUDIT),
       FunctionAttr("audit", log_method_factory("audit", AUDIT, FALSE)),
       LevelAttr("FAIL", FAIL),
       FunctionAttr("fail", log_method_factory("fail", FAIL, TRUE)) >>

\* dict.update: g's entries over f's.
Update(f, g) ==
    [k \in (DOMAIN f) \cup (DOMAIN g) |-> IF k \in DOMAIN g THEN g[k] ELSE f[k]]

RECURSIVE InheritLevels(_, _, _)
\* for base in bases: levels.update(base._log_levels)
InheritLevels(bases, acc, tps) ==
    IF bases = <<>> THEN acc
    ELSE InheritLevels(Tail(bases), Update(acc, tps[Head(bases)]._log_levels), tps)

RECURSIVE DeclareLevels(_, _)
\* for key, val in attrs.items(): if isinstance(val, LogLevel):
\*     levels[val.level] = val
DeclareLevels(attrs, acc) ==
    IF attrs = <<>> THEN acc
    ELSE
        LET a == Head(attrs)
        IN  DeclareLevels(Tail(attrs),
                IF a.kind = "LogLevel"
                THEN Update(acc, (a.val.level :> a.val))
                ELSE acc)

RECURSIVE InheritFunctions(_, _)
\* Attribute lookup along the bases: the first base that has the name wins.
InheritFunctions(bases, tps) ==
    IF bases = <<>> THEN <<>>
    ELSE Update(InheritFunctions(Tail(bases), tps), tps[Head(bases)].functions)

RECURSIVE OwnFunctions(_, _)
OwnFunctions(attrs, acc) ==
    IF attrs = <<>> THEN acc
    ELSE
        LET a == Head(attrs)
        IN  OwnFunctions(Tail(attrs),
                IF a.kind = "function" THEN Update(acc, (a.key :> a.val)) ELSE acc)

\* LoggerMetaClass.__new__(mcs, name, bases, attrs): the class record, with
\* the registry _log_levels built from the bases' registries and then from
\* the LogLevel attributes of the body.
LoggerMetaClass(bases, attrs, tps) ==
    [bases |-> bases,
     attrs |-> attrs,
     _log_levels |-> DeclareLevels(attrs, InheritLevels(bases, <<>>, tps)),
     functions |-> OwnFunctions(attrs, InheritFunctions(bases, tps))]

\* logging.getLevelName(level): the backend's own name of a level.
getLevelName(level) ==
    CASE level = 50 -> "CRITICAL"
      [] level = 40 -> "ERROR"
      [] level = 30 -> "WARNING"
      [] level = 20 -> "INFO"
      [] level = 10 -> "DEBUG"
      [] OTHER -> "Level " \o ToString(level)

get_level_name_backend(cls, level) ==
    getLevelName(level)

\* AwareLogger.get_level_name(level)
get_level_name(cls, level) ==
    IF level \in DOMAIN cls._log_levels
    THEN cls._log_levels[level].name
    ELSE "Level " \o ToString(level)

\* The types defined when the modules are imported: logaware.logger,
\* logaware.metalogger and tests/example/loggers.py.
AwareLoggerType == LoggerMetaClass(<<>>, AwareLoggerBody, <<>>)
LibraryTypes ==
    LET t1 == ("AwareLogger" :> AwareLoggerType)
        t2 == Update(t1, ("MetaAwareLogger" :>
                    LoggerMetaClass(<<"AwareLogger">>, MetaAwareLoggerBody, t1)))
    IN  Update(t2, ("CustomLogger" :>
                    LoggerMetaClass(<<"AwareLogger">>, CustomLoggerBody, t2)))

(***************************************************************************)
(* The call stack.  A frame is [module, file, line, func]; a stack is the  *)
(* sequence of frames, outermost first.  A frame object is its index in    *)
(* the stack, so that f_back is the index below.                           *)
(***************************************************************************)
Frame(module, file, line, func) ==
    [module |-> module, file |-> file, line |-> line, func |-> func]

\* The frames of the logging machinery.
LogMethodFrame == Frame("logaware.logger", "logaware/logger.py", 59, "log_method")
LogFrame == Frame("logaware.logger", "logaware/logger.py", 152, "log")
IsEnabledForFrame == Frame("logaware.logger", "logaware/logger.py", 179, "isEnabledFor")
UnderLogFrame == Frame("logaware.logger", "logaware/logger.py", 185, "_log")
GetCallerFrame == Frame("logaware.logger", "logaware/logger.py", 272, "_get_caller")
CurrentFrameFrame == Frame("logging", "logging/__init__.py", 1, "<lambda>")

\* logging.currentframe is sys._getframe(3) on the interpreters the package
\* supports (2.7, 3.3 to 3.5): three frames below the lambda's own.
CurrentFrameDepth == 3

\* logging.currentframe(), called with `stack` as the stack of its caller.
currentframe(stack) ==
    Len(Append(stack, CurrentFrameFrame)) - CurrentFrameDepth

f_back(frame) == frame - 1

_get_caller_no_f_back(stack) ==
    LET caller_frame == currentframe(stack)
    IN  [module_name |-> stack[caller_frame].module,
         filename |-> stack[caller_frame].file,
         line_number |-> stack[caller_frame].line,
         func_name |-> stack[caller_frame].func]

\* _get_caller(): (module_name, filename, line_number, func_name) of the
\* frame below the one logging.currentframe() returns.  `stack` ends with
\* _get_caller's own frame.
_get_caller(stack) ==
    LET caller_frame == f_back(currentframe(stack))
    IN  [module_name |-> stack[caller_frame].module,
         filename |-> stack[caller_frame].file,
         line_number |-> stack[caller_frame].line,
         func_name |-> stack[caller_frame].func]

(***************************************************************************)
(* The logging backend, at the interface the logger uses.                  *)
(***************************************************************************)
LoggerNames ==
    {"root", "tests", "tests.test_logger", "tests.example.submodule",
     "tests.test_meta_logger", "tests.test_examples",
     "_pytest.python", "logaware.logger", "logging"}

\* The nearest existing ancestor in the logger hierarchy.
Parent(name) ==
    IF name \in {"tests.test_logger", "tests.example.submodule",
                 "tests.test_meta_logger", "tests.test_examples"}
    THEN "tests"
    ELSE "root"

\* Logger.getEffectiveLevel(): the first level set on the way to the root.
getEffectiveLevel(name) ==
    IF levels[name] # 0 THEN levels[name]
    ELSE IF name = "root" THEN 0
    ELSE IF levels[Parent(name)] # 0 THEN levels[Parent(name)]
    ELSE levels["root"]

\* logging.getLogger(name).isEnabledFor(level)
isEnabledFor_backend(name, level) ==
    level >= getEffectiveLevel(name)

\* Logger.makeRecord(name, level, fn, lno, msg, args, exc_info, func, extra)
makeRecord(name, level, fn, lno, msg, exc_info, func, extra) ==
    [name |-> name, levelno |-> level, levelname |-> getLevelName(level),
     pathname |-> fn, lineno |-> lno, msg |-> msg, exc_info |-> exc_info,
     funcName |-> func, extra |-> extra]

(***************************************************************************)
(* AwareLogger: formatting, extra data and _log.                           *)
(***************************************************************************)
\* The outcome of an operation.  kind: "idle", "none" (returned None),
\* "record" (returned a record), "raised" (raised LogFormatException with
\* .original of class `error`) or "name" (a level name in text).
\* events: the steps taken; dispatched: the records as Logger.handle
\* received them.
Outcome(kind, value, error, text, events, dispatched) ==
    [kind |-> kind, value |-> value, error |-> error, text |-> text,
     events |-> events, dispatched |-> dispatched]

_format_message_swallow(message, kwargs) ==
    IF DOMAIN kwargs = {} THEN [err |-> "", text |-> TemplateText(message)]
    ELSE LET r == StrFormat(message, kwargs)
         IN  IF r.err # "" THEN [err |-> "", text |-> TemplateText(message)] ELSE r

_format_message_always(message, kwargs) ==
    StrFormat(message, kwargs)

\* AwareLogger._format_message(message, kwargs): [err, text]; err names the
\* class of the error wrapped in LogFormatException.
_format_message(message, kwargs) ==
    IF DOMAIN kwargs = {} THEN [err |-> "", text |-> TemplateText(message)]
    ELSE StrFormat(message, kwargs)

\* v in (None, '')
IsEmptyValue(v) == v = PyNone \/ v = PyStr("")

_get_extra_keep_empty(kwargs) ==
    IF DOMAIN kwargs # {} THEN ("data" :> kwargs) ELSE <<>>

\* AwareLogger._get_extra(message, kwargs)
_get_extra(kwargs) ==
    LET keep == {k \in DOMAIN kwargs : ~IsEmptyValue(kwargs[k])}
        data == [k \in keep |-> kwargs[k]]
    IN  IF keep # {} THEN ("data" :> data) ELSE <<>>

\* LogMetaManager.get_meta(), the accessor the tests give to MetaAwareLogger.
get_meta == meta

_get_extra_meta_first_snapshot(kwargs) ==
    Update(_get_extra(kwargs),
           ("meta" :> IF returned = <<>> THEN PyNone ELSE returned[1].snapshot))

\* MetaAwareLogger._get_extra(message, kwargs)
_get_extra_meta(kwargs) ==
    Update(_get_extra(kwargs), ("meta" :> get_meta))

\* self._get_extra(message, kwargs), by the type of self: [extra, events].
GetExtra(cls, kwargs) ==
    IF cls.functions["_get_extra"].impl = "_get_extra_meta"
    THEN [extra |-> _get_extra_meta(kwargs),
          events |-> <<"_get_extra", "_meta_getter">>]
    ELSE [extra |-> _get_extra(kwargs), events |-> <<"_get_extra">>]

normalize_exc_info_keep_triple(exc_info, active) ==
    IF Truthy(exc_info) /\ exc_info.t # "tuple" THEN active ELSE exc_info

\* Lines 192-200 of _log: the exc_info given to makeRecord.  `active` is what
\* sys.exc_info() returns at the call.
normalize_exc_info(exc_info, active) ==
    IF Truthy(exc_info)
    THEN LET e == IF exc_info.t # "tuple" THEN active ELSE exc_info
         IN  IF e = NoneTriple THEN PyNone ELSE e
    ELSE exc_info

EmitRecord_handle_before_override(cls, level, caller, message, exc_info, extra) ==
    LET record == makeRecord(caller.module_name, level, caller.filename,
                             caller.line_number, message, exc_info,
                             caller.func_name, extra)
        named == [record EXCEPT !.levelname = get_level_name(cls, level)]
    IN  Outcome("record", named, "", "",
                <<"makeRecord", "handle", "levelname">>, <<record>>)

\* Lines 202-218 of _log: the record is made, its level name overridden,
\* the record handed to Logger.handle and returned.  Logger.handle formats
\* the record as it is at that moment.
EmitRecord(cls, level, caller, message, exc_info, extra) ==
    LET record == makeRecord(caller.module_name, level, caller.filename,
                             caller.line_number, message, exc_info,
                             caller.func_name, extra)
        named == [record EXCEPT !.levelname = get_level_name(cls, level)]
    IN  Outcome("record", named, "", "",
                <<"makeRecord", "levelname", "handle">>, <<named>>)

\* kwargs.pop(key, default): [value, rest]
Pop(kwargs, key, default) ==
    [value |-> IF key \in DOMAIN kwargs THEN kwargs[key] ELSE default,
     rest |-> [k \in (DOMAIN kwargs) \ {key} |-> kwargs[k]]]

\* Lines 188-218 of _log, taken when the level is enabled.
LogEnabled(cls, level, message, kwargs, caller, active) ==
    LET popped == Pop(kwargs, "exc_info", PyInt(0))
        fm == _format_message(message, popped.rest)
    IN  IF fm.err # ""
        THEN Outcome("raised", PyNone, fm.err, "", <<"_format_message">>, <<>>)
        ELSE
            LET ex == GetExtra(cls, popped.rest)
                exc_info == normalize_exc_info(popped.value, active)
                out == EmitRecord(cls, level, caller, fm.text, exc_info, ex.extra)
            IN  [out EXCEPT !.events = <<"_format_message">> \o ex.events \o @]

_log_unconditional(cls, level, message, kwargs, stack, active) ==
    LET caller == _get_caller(Append(Append(stack, UnderLogFrame), GetCallerFrame))
        out == LogEnabled(cls, level, message, kwargs, caller, active)
    IN  [out EXCEPT !.events = <<"_get_caller", "isEnabledFor">> \o @]

\* AwareLogger._log(level, message, kwargs).  `stack` ends with the frame of
\* the entry point that calls _log.
_log(cls, level, message, kwargs, stack, active) ==
    LET caller == _get_caller(Append(Append(stack, UnderLogFrame), GetCallerFrame))
    IN  IF isEnabledFor_backend(caller.module_name, level)
        THEN LET out == LogEnabled(cls, level, message, kwargs, caller, active)
             IN  [out EXCEPT !.events = <<"_get_caller", "isEnabledFor">> \o @]
        ELSE Outcome("none", PyNone, "", "", <<"_get_caller", "isEnabledFor">>, <<>>)

\* AwareLogger.isEnabledFor(level).  `stack` ends with the frame of the
\* caller of isEnabledFor.
isEnabledFor(level, stack) ==
    LET caller == _get_caller(Append(Append(stack, IsEnabledForFrame), GetCallerFrame))
    IN  isEnabledFor_backend(caller.module_name, level)

\* dict.setdefault(key, value)
SetDefault(kwargs, key, value) ==
    IF key \in DOMAIN kwargs THEN kwargs ELSE Update(kwargs, (key :> value))

log_method_overrides_exc_info(cls, fn, message, kwargs, stack, active) ==
    _log(cls, fn.level, message,
         IF fn.traceback THEN Update(kwargs, ("exc_info" :> PyInt(1))) ELSE kwargs,
         Append(stack, LogMethodFrame), active)

\* The body of a method made by log_method_factory, called as
\* self.<name>(message, **kwargs).
log_method(cls, fn, message, kwargs, stack, active) ==
    _log(cls, fn.level, message,
         IF fn.traceback THEN SetDefault(kwargs, "exc_info", PyInt(1)) ELSE kwargs,
         Append(stack, LogMethodFrame), active)

\* AwareLogger.log(level, msg, **kwargs)
log(cls, level, msg, kwargs, stack, active) ==
    _log(cls, level, msg, kwargs, Append(stack, LogFrame), active)

(***************************************************************************)
(* Inputs: call sites, templates, keyword arguments, exception states.     *)
(***************************************************************************)
\* The frame of the test runner, below every test function.
RunnerFrame == Frame("_pytest.python", "_pytest/python.py", 1, "pytest_pyfunc_call")

\* tests/test_logger.py: test_local_context logs at line 31.
SiteLocal ==
    << RunnerFrame,
       Frame("tests.test_logger", "tests/test_logger.py", 31, "test_local_context") >>
\* test_function_context calls some_function, which logs at line 21.
SiteFunction ==
    << RunnerFrame,
       Frame("tests.test_logger", "tests/test_logger.py", 43, "test_function_context"),
       Frame("tests.test_logger", "tests/test_logger.py", 21, "some_function") >>
\* test_submodule_class_context calls Tester.run, which logs at line 13 of
\* tests/example/submodule.py.
SiteMethod ==
    << RunnerFrame,
       Frame("tests.test_logger", "tests/test_logger.py", 56, "test_submodule_class_context"),
       Frame("tests.example.submodule", "tests/example/submodule.py", 13, "run") >>
Sites == {SiteLocal, SiteFunction, SiteMethod}

\* 'test'
PlainTemplate == << Lit("test") >>
Templates ==
    { PlainTemplate,
      \* 'args {foo} {bar}'
      << Lit("args "), Field("foo", ""), Lit(" "), Field("bar", "") >>,
      \* 'args {foo:d}'
      << Lit("args "), Field("foo", "d") >>,
      \* 'Some args {0}'
      << Lit("Some args "), Index("0") >>,
      \* 'set {{x}} {foo}'
      << Lit("set "), Esc("{"), Lit("x"), Esc("}"), Lit(" "), Field("foo", "") >> }

NoKwargs == [k \in {} |-> PyNone]
KwargSets ==
    { NoKwargs,
      ("foo" :> PyInt(1)) @@ ("bar" :> PyInt(2)),
      ("foo" :> PyStr("a")),
      ("foo" :> PyNone) @@ ("bar" :> PyStr("")),
      ("foo" :> PyInt(0)) @@ ("bar" :> PyBool(FALSE)),
      ("foo" :> PyInt(1)) @@ ("bar" :> PyNone) }

\* What sys.exc_info() returns: inside an except block, and outside of one.
ActiveStates == {ExcTuple("ValueError"), NoneTriple}

\* Keyword arguments that carry exc_info.
ExcKwargs ==
    { NoKwargs,
      ("exc_info" :> PyInt(0)),
      ("exc_info" :> PyInt(1)),
      ("exc_info" :> ExcTuple("IndexError")),
      ("exc_info" :> NoneTriple),
      ("exc_info" :> PyInt(1)) @@ ("foo" :> PyInt(1)) }

\* Levels given to log(level, ...) and get_level_name(level): registered in
\* every type, in some, in none.
LevelInputs == {5, 10, 30, 99, 100}

Call(op, type, method, level, stack, tmpl, kwargs, active) ==
    [op |-> op, type |-> type, method |-> method, level |-> level,
     stack |-> stack, tmpl |-> tmpl, kwargs |-> kwargs, active |-> active]

\* The generated level methods of the types the repository defines.
LevelMethods ==
    { p \in (DOMAIN LibraryTypes) \X
            {"debug", "info", "warning", "warn", "error", "exception",
             "critical", "fatal", "audit", "fail"} :
        /\ p[2] \in DOMAIN LibraryTypes[p[1]].functions
        /\ LibraryTypes[p[1]].functions[p[2]].impl = "log_method" }

\* The calls of level methods: the methods from every site; the templates
\* with every set of keyword arguments; every exc_info in every exception
\* state.
MethodCalls ==
    { Call("method", p[1], p[2], 0, st, PlainTemplate, NoKwargs, NoneTriple) :
        p \in { q \in LevelMethods :
                    \/ q[1] = "AwareLogger"
                    \/ q[2] \in {"info", "audit", "fail"} },
        st \in Sites }
    \cup
    { Call("method", "AwareLogger", "debug", 0, SiteLocal, p[1], p[2], NoneTriple) :
        p \in Templates \X KwargSets }
    \cup
    { Call("method", "MetaAwareLogger", "error", 0, SiteLocal, p[1], p[2], NoneTriple) :
        p \in {t \in Templates : Len(t) # 2} \X KwargSets }
    \cup
    { Call("method", p[1][1], p[1][2], 0, SiteLocal, PlainTemplate, p[2], p[3]) :
        p \in { q \in LevelMethods :
                    /\ q[1] # "MetaAwareLogger"
                    /\ q[2] \in {"debug", "exception", "audit", "fail"} }
              \X ExcKwargs \X ActiveStates }

\* The calls of log(level, msg, **kwargs).
LogCalls ==
    { Call("log", p[1], "log", p[2], SiteLocal, PlainTemplate, NoKwargs, NoneTriple) :
        p \in (DOMAIN LibraryTypes) \X LevelInputs }
    \cup
    { Call("log", "AwareLogger", "log", 10, st, PlainTemplate, NoKwargs, NoneTriple) :
        st \in Sites }
    \cup
    { Call("log", "AwareLogger", "log", 30, SiteFunction, p[1], p[2], NoneTriple) :
        p \in {t \in Templates : Len(t) = 2} \X KwargSets }
    \cup
    { Call("log", "CustomLogger", "log", 99, SiteMethod, PlainTemplate, p[1], p[2]) :
        p \in ExcKwargs \X ActiveStates }

NoCall == Call("none", "", "", 0, <<>>, <<>>, NoKwargs, NoneTriple)
Idle == Outcome("idle", PyNone, "", "", <<>>, <<>>)

(***************************************************************************)
(* The state machine.                                                      *)
(***************************************************************************)
\* The library and example modules are imported; the test fixture has set
\* the 'tests' logger to level 1, the root logger is at WARNING; no metadata
\* is set, no list is allocated and no metadata context is entered.
Init ==
    /\ types = LibraryTypes
    /\ levels = [n \in LoggerNames |->
                    IF n = "tests" THEN 1 ELSE IF n = "root" THEN 30 ELSE 0]
    /\ meta = PyNone
    /\ handleCount = 0
    /\ call = NoCall
    /\ result = Idle
    /\ heap = <<>>
    /\ returned = <<>>
    /\ _meta_local = <<>>
    /\ contexts = <<>>

\* self.<level method>(message, **kwargs)
LogMethod ==
    \E c \in MethodCalls :
        /\ handleCount < MaxHandled
        /\ LET cls == types[c.type]
               out == log_method(cls, cls.functions[c.method], c.tmpl, c.kwargs,
                                 c.stack, c.active)
           IN  /\ call' = c
               /\ result' = out
               /\ handleCount' = handleCount + Len(out.dispatched)
        /\ UNCHANGED <<types, levels, meta>>
        /\ UNCHANGED metavars

\* self.log(level, message, **kwargs)
Log ==
    \E c \in LogCalls :
        /\ handleCount < MaxHandled
        /\ LET out == log(types[c.type], c.level, c.tmpl, c.kwargs, c.stack, c.active)
           IN  /\ call' = c
               /\ result' = out
               /\ handleCount' = handleCount + Len(out.dispatched)
        /\ UNCHANGED <<types, levels, meta>>
        /\ UNCHANGED metavars

\* self.get_level_name(level)
GetLevelName ==
    \E T \in DOMAIN types, l \in LevelInputs :
        /\ call' = Call("get_level_name", T, "get_level_name", l, <<>>, <<>>,
                        NoKwargs, NoneTriple)
        /\ result' = Outcome("name", PyNone, "", get_level_name(types[T], l),
                             <<>>, <<>>)
        /\ UNCHANGED <<types, levels, meta, handleCount>>
        /\ UNCHANGED metavars

\* self.isEnabledFor(level)
IsEnabledFor ==
    \E T \in DOMAIN types, l \in LevelInputs, st \in Sites :
        /\ call' = Call("isEnabledFor", T, "isEnabledFor", l, st, <<>>, NoKwargs,
                        NoneTriple)
        /\ result' = Outcome("bool", PyBool(isEnabledFor(l, st)), "", "",
                             <<"_get_caller", "isEnabledFor">>, <<>>)
        /\ UNCHANGED <<types, levels, meta, handleCount>>
        /\ UNCHANGED metavars

\* logging.getLogger(name).setLevel(level), as the tests and their fixture do.
SettableLoggers == {"tests", "tests.example.submodule"}
LevelSettings(n) == IF n = "tests" THEN {0, 1, 999} ELSE {0, 999}
SetLevel ==
    \E n \in SettableLoggers :
      \E l \in LevelSettings(n) :
        /\ levels[n] # l
        /\ levels' = [levels EXCEPT ![n] = l]
        /\ call' = Call("setLevel", n, "setLevel", l, <<>>, <<>>, NoKwargs, NoneTriple)
        /\ result' = Idle
        /\ UNCHANGED <<types, meta, handleCount>>
        /\ UNCHANGED metavars

Next == LogMethod \/ Log \/ GetLevelName \/ IsEnabledFor \/ SetLevel

Spec == Init /\ [][Next]_vars

(***************************************************************************)
(* Defining logger types.                                                  *)
(***************************************************************************)
Range(seq) == {seq[i] : i \in DOMAIN seq}

RECURSIVE Ancestors(_, _)
\* The proper ancestors of type T.
Ancestors(T, tps) ==
    UNION {{b} \cup Ancestors(b, tps) : b \in Range(tps[T].bases)}

RECURSIVE SingleInheritance(_, _)
SingleInheritance(T, tps) ==
    \/ tps[T].bases = <<>>
    \/ /\ Len(tps[T].bases) = 1
       /\ SingleInheritance(tps[T].bases[1], tps)

\* tests/test_logger.py, test_custom_level
BLERG == LogLevel(42, "BLERG", FALSE)
BlergBody ==
    << LevelAttr("BLERG", BLERG),
       FunctionAttr("blerg", log_method_factory("blerg", BLERG, FALSE)) >>
\* tests/test_logger.py, test_custom_level_with_traceback
OOPS == LogLevel(43, "OOPS", FALSE)
OopsBody ==
    << LevelAttr("OOPS", OOPS),
       FunctionAttr("oops", log_method_factory("oops", OOPS, TRUE)) >>
\* A body that declares a level under a numeric value its bases register.
NOTICE == LogLevel(20, "NOTICE", FALSE)
NoticeBody == << LevelAttr("NOTICE", NOTICE) >>
UserBodies == {BlergBody, OopsBody, NoticeBody, <<>>}

\* The base lists a class statement can name: one defined type, or two that
\* the method resolution order accepts (the first is no ancestor of the
\* second).
BaseChoices ==
    { <<a>> : a \in DOMAIN types }
    \cup
    { <<p[1], p[2]>> : p \in
        { q \in (DOMAIN types) \X (DOMAIN types) :
            /\ q[1] # q[2]
            /\ q[1] \notin Ancestors(q[2], types)
            /\ SingleInheritance(q[1], types)
            /\ SingleInheritance(q[2], types) } }

\* class LoggerN(bases...): body
DefineLogger ==
    \E bases \in BaseChoices, body \in UserBodies :
        LET n == Cardinality(DOMAIN types) - Cardinality(DOMAIN LibraryTypes)
            name == "Logger" \o ToString(n + 1)
        IN  /\ n < MaxTypes
            /\ types' = Update(types, (name :> LoggerMetaClass(bases, body, types)))
            /\ call' = Call("class", name, "", 0, <<>>, <<>>, NoKwargs, NoneTriple)
            /\ result' = Idle
            /\ UNCHANGED <<levels, meta, handleCount>>
            /\ UNCHANGED metavars

NextTypes == DefineLogger

SpecTypes == Init /\ [][NextTypes]_vars

(***************************************************************************)
(* Metadata values.  Besides the values above, metadata fields hold        *)
(* floats, strings with non-ASCII characters, lists and objects that JSON  *)
(* cannot represent.                                                       *)
(***************************************************************************)
\* A float, by its repr.
PyFloat(x) == [t |-> "float", i |-> 0, s |-> x]
\* A reference to the list object at address a of the heap.
PyList(a) == [t |-> "list", i |-> a, s |-> ""]
\* The NotImplemented singleton.
NotImplementedValue == [t |-> "object", i |-> 0, s |-> "NotImplemented"]
\* The n-th of the strings with non-ASCII characters (UnicodeStrings below).
PyUStr(n) == [t |-> "str", i |-> n, s |-> ""]

\* A text is a sequence of runs: a run of ASCII characters, or one non-ASCII
\* character by its code point.  The same records serve for byte strings,
\* where cp is the value of a byte above 127.
Ascii(x) == [cp |-> 0, s |-> x]
Char(cp) == [cp |-> cp, s |-> ""]

RECURSIVE Normalize(_)
\* The text of a sequence of runs: adjacent ASCII runs are one run and empty
\* runs are dropped, so that equal texts are equal sequences.
Normalize(runs) ==
    IF runs = <<>> THEN <<>>
    ELSE
        LET h == Head(runs)
            rest == Normalize(Tail(runs))
        IN  IF h.cp = 0 /\ h.s = "" THEN rest
            ELSE IF h.cp = 0 /\ rest # <<>> /\ rest[1].cp = 0
            THEN <<Ascii(h.s \o rest[1].s)>> \o Tail(rest)
            ELSE <<h>> \o rest

\* u'bŌŌk' (U+014C) and u'fӫӫ' (U+04EB) of tests/test_meta_logger.py.
UnicodeStrings ==
    << <<Ascii("b"), Char(332), Char(332), Ascii("k")>>,
       <<Ascii("f"), Char(1259), Char(1259)>> >>

\* The characters of a str value.
StrText(v) ==
    IF v.i = 0 THEN Normalize(<<Ascii(v.s)>>) ELSE UnicodeStrings[v.i]

HexDigits ==
    <<"0", "1", "2", "3", "4", "5", "6", "7", "8", "9", "a", "b", "c", "d", "e", "f">>
\* '\uXXXX', the escape json writes for a character when ensure_ascii is set.
UEscape(cp) ==
    "\\u" \o HexDigits[((cp \div 4096) % 16) + 1] \o HexDigits[((cp \div 256) % 16) + 1]
          \o HexDigits[((cp \div 16) % 16) + 1] \o HexDigits[(cp % 16) + 1]

RECURSIVE EscapeNonAscii(_)
EscapeNonAscii(text) ==
    IF text = <<>> THEN <<>>
    ELSE (IF Head(text).cp = 0 THEN <<Head(text)>> ELSE <<Ascii(UEscape(Head(text).cp))>>)
         \o EscapeNonAscii(Tail(text))

\* One character encoded for UTF-8 (code points below 65536).
EncodeChar(cp) ==
    IF cp < 128 THEN <<Char(cp)>>
    ELSE IF cp < 2048 THEN <<Char(192 + (cp \div 64)), Char(128 + (cp % 64))>>
    ELSE <<Char(224 + (cp \div 4096)), Char(128 + ((cp \div 64) % 64)),
          Char(128 + (cp % 64))>>

RECURSIVE encode_utf8(_)
\* text.encode('utf8'): ASCII runs are their own bytes.
encode_utf8(text) ==
    IF text = <<>> THEN <<>>
    ELSE (IF Head(text).cp = 0 THEN <<Head(text)>> ELSE EncodeChar(Head(text).cp))
         \o encode_utf8(Tail(text))

RECURSIVE decode_utf8(_)
\* bytes.decode('utf8'), for well-formed input.
decode_utf8(bytes) ==
    IF bytes = <<>> THEN <<>>
    ELSE
        LET b == Head(bytes)
        IN  IF b.cp = 0 THEN <<b>> \o decode_utf8(Tail(bytes))
            ELSE IF b.cp < 224
            THEN <<Char((b.cp - 192) * 64 + (bytes[2].cp - 128))>>
                 \o decode_utf8(Tail(Tail(bytes)))
            ELSE <<Char((b.cp - 224) * 4096 + (bytes[2].cp - 128) * 64
                        + (bytes[3].cp - 128))>>
                 \o decode_utf8(Tail(Tail(Tail(bytes))))

(***************************************************************************)
(* json.dumps(obj, sort_keys=True, separators=(item, key),                 *)
(* ensure_ascii=...), for a dict of scalars and lists of scalars.  The     *)
(* strings of the model hold no quote, backslash or control character.     *)
(***************************************************************************)
\* The keys of the model in ascending string order.
KeyOrder == <<"count", "empty", "id", "name", "tags", "user", "version">>

\* sorted(keys)
SortedKeys(keys) == SelectSeq(KeyOrder, LAMBDA k : k \in keys)

JsonString(text, ensure_ascii) ==
    <<Ascii("\"")>> \o (IF ensure_ascii THEN EscapeNonAscii(text) ELSE text)
                    \o <<Ascii("\"")>>

\* A value that is no container: [err, text].
JsonScalar(v, ensure_ascii) ==
    CASE v.t = "none" -> [err |-> "", text |-> <<Ascii("null")>>]
      [] v.t = "bool" ->
            [err |-> "", text |-> <<Ascii(IF v.i = 1 THEN "true" ELSE "false")>>]
      [] v.t = "int" -> [err |-> "", text |-> <<Ascii(ToString(v.i))>>]
      [] v.t = "float" -> [err |-> "", text |-> <<Ascii(v.s)>>]
      [] v.t = "str" -> [err |-> "", text |-> JsonString(StrText(v), ensure_ascii)]
      [] OTHER -> [err |-> "TypeError", text |-> <<>>]

\* The text of r between a prefix and a suffix, or r when it is an error.
JsonWrap(prefix, r, suffix) ==
    IF r.err # "" THEN r
    ELSE [err |-> "", text |-> prefix \o r.text \o suffix]

\* Two encoded parts joined by sep; the first error is the result.
JsonJoin(one, sep, rest) ==
    IF one.err # "" THEN one
    ELSE JsonWrap(one.text \o sep, rest, <<>>)

RECURSIVE JsonItems(_, _, _)
\* The items of a list, joined by the item separator.
JsonItems(items, item_sep, ensure_ascii) ==
    IF items = <<>> THEN [err |-> "", text |-> <<>>]
    ELSE JsonJoin(JsonScalar(Head(items), ensure_ascii),
                  IF Tail(items) = <<>> THEN <<>> ELSE <<Ascii(item_sep)>>,
                  JsonItems(Tail(items), item_sep, ensure_ascii))

JsonValue(v, h, item_sep, ensure_ascii) ==
    IF v.t = "list"
    THEN JsonWrap(<<Ascii("[")>>, JsonItems(h[v.i], item_sep, ensure_ascii),
                  <<Ascii("]")>>)
    ELSE JsonScalar(v, ensure_ascii)

RECURSIVE JsonMembers(_, _, _, _, _, _)
\* The members of a dict in the order of `keys`.
JsonMembers(keys, d, h, item_sep, key_sep, ensure_ascii) ==
    IF keys = <<>> THEN [err |-> "", text |-> <<>>]
    ELSE JsonJoin(JsonWrap(JsonString(<<Ascii(Head(keys))>>, ensure_ascii)
                               \o <<Ascii(key_sep)>>,
                           JsonValue(d[Head(keys)], h, item_sep, ensure_ascii),
                           <<>>),
                  IF Tail(keys) = <<>> THEN <<>> ELSE <<Ascii(item_sep)>>,
                  JsonMembers(Tail(keys), d, h, item_sep, key_sep, ensure_ascii))

\* The text of an encoded object in normal form.
JsonText(r) ==
    IF r.err # "" THEN r ELSE [err |-> "", text |-> Normalize(r.text)]

\* json.dumps(d, sort_keys=True, separators=(item_sep, key_sep),
\*            ensure_ascii=ensure_ascii): [err, text]
dumps(d, h, item_sep, key_sep, ensure_ascii) ==
    JsonText(JsonWrap(<<Ascii("{")>>,
                      JsonMembers(SortedKeys(DOMAIN d), d, h, item_sep, key_sep,
                                  ensure_ascii),
                      <<Ascii("}")>>))

(***************************************************************************)
(* LogMeta and LogMetaManager.                                             *)
(***************************************************************************)
\* {k: v for k, v in d.items() if v not in (None, '')}
NonEmpty(d) == [k \in {x \in DOMAIN d : ~IsEmptyValue(d[x])} |-> d[k]]

LogMeta_lazy(kwargs, h) ==
    [err |-> "",
     obj |-> [t |-> "LogMeta", i |-> 0, s |-> "", _data |-> kwargs, _json |-> <<>>]]

LogMeta_ensure_ascii(kwargs, h) ==
    LET j == dumps(NonEmpty(kwargs), h, ", ", ":", TRUE)
    IN  IF j.err # "" THEN [err |-> j.err, obj |-> PyNone]
        ELSE [err |-> "",
              obj |-> [t |-> "LogMeta", i |-> 0, s |-> "",
                       _data |-> kwargs, _json |-> j.text]]

\* LogMeta(**kwargs), with the heap h: [err, obj].  The object keeps kwargs
\* as _data and the JSON of its non-empty entries as _json; json.dumps
\* raises TypeError for a value it cannot represent.
LogMeta(kwargs, h) ==
    LET j == dumps(NonEmpty(kwargs), h, ", ", ":", FALSE)
    IN  IF j.err # "" THEN [err |-> j.err, obj |-> PyNone]
        ELSE [err |-> "",
              obj |-> [t |-> "LogMeta", i |-> 0, s |-> "",
                       _data |-> kwargs, _json |-> j.text]]

\* The attributes of class LogMeta: its own and those of Mapping.
LogMetaAttributes ==
    {"__init__", "__str__", "__bytes__", "__repr__", "__getitem__", "__len__",
     "__iter__", "to_dict",
     "__contains__", "keys", "items", "values", "get", "__eq__", "__ne__"}

__str__(m) == m._json
__bytes__(m) == encode_utf8(m._json)
\* LogMeta.__getitem__(key): [err, value]
__getitem__(m, key) ==
    IF key \in DOMAIN m._data THEN [err |-> "", value |-> m._data[key]]
    ELSE [err |-> "KeyError", value |-> PyNone]
__len__(m) == Cardinality(DOMAIN m._data)
__iter__(m) == DOMAIN m._data

RECURSIVE CopyLists(_, _, _)
CopyLists(keys, d, h) ==
    IF keys = <<>> THEN [dict |-> d, heap |-> h]
    ELSE
        LET k == Head(keys)
        IN  IF d[k].t = "list"
            THEN CopyLists(Tail(keys), [d EXCEPT ![k] = PyList(Len(h) + 1)],
                           Append(h, h[d[k].i]))
            ELSE CopyLists(Tail(keys), d, h)

\* copy.deepcopy(d): [dict, heap]; every list of d is copied to a new object.
deepcopy(d, h) == CopyLists(SortedKeys(DOMAIN d), d, h)

\* LogMeta.to_dict()
to_dict(m, h) == deepcopy(m._data, h)

\* bool(self._meta): None is false, a Mapping is true when it has a key.
MetaTruthy(m) == m.t = "LogMeta" /\ __len__(m) > 0

set_meta_replace(m, kwargs, h) ==
    LET made == LogMeta(kwargs, h)
    IN  IF made.err # ""
        THEN [err |-> made.err, meta |-> m, heap |-> h]
        ELSE [err |-> "", meta |-> made.obj, heap |-> h]

\* LogMetaManager.set_meta(**kwargs) with self._meta = m:
\* [err, meta, heap]; meta is self._meta after the call, also the value
\* returned when nothing is raised.
set_meta(m, kwargs, h) ==
    LET merged ==
            IF MetaTruthy(m)
            THEN LET d == to_dict(m, h)
                 IN  [dict |-> Update(d.dict, kwargs), heap |-> d.heap]
            ELSE [dict |-> kwargs, heap |-> h]
        made == LogMeta(merged.dict, merged.heap)
    IN  IF made.err # ""
        THEN [err |-> made.err, meta |-> m, heap |-> merged.heap]
        ELSE [err |-> "", meta |-> made.obj, heap |-> merged.heap]

(***************************************************************************)
(* Using a LogMetaManager with a MetaAwareLogger whose accessor is         *)
(* lambda: meta.get_meta().                                                *)
(***************************************************************************)
\* List objects allocated on the heap.
MaxHeap == 3
\* Successful calls of set_meta taken.
MaxSetMeta == 2

\* A list the caller builds for the call: ['a'].
ListLiteral == PyList(0)

RECURSIVE Allocate(_, _, _)
\* The caller's evaluation of the arguments: each list literal is a new
\* object.
Allocate(keys, d, h) ==
    IF keys = <<>> THEN [dict |-> d, heap |-> h]
    ELSE
        LET k == Head(keys)
        IN  IF d[k] = ListLiteral
            THEN Allocate(Tail(keys), [d EXCEPT ![k] = PyList(Len(h) + 1)],
                          Append(h, <<PyStr("a")>>))
            ELSE Allocate(Tail(keys), d, h)

\* The fields given to set_meta and LogMeta: those of the tests and the
\* docstrings, and one with a list.
MetaFields ==
    { NoKwargs,
      ("user" :> PyStr("foo")),
      ("user" :> PyStr("bob")) @@ ("id" :> PyInt(1)),
      ("user" :> PyStr("bob")) @@ ("version" :> PyFloat("1.1")) @@ ("empty" :> PyNone),
      ("name" :> PyUStr(1)) @@ ("count" :> PyInt(100)),
      ("user" :> PyNone) @@ ("name" :> PyStr("")),
      ("user" :> NotImplementedValue),
      ("tags" :> ListLiteral) }

\* meta.set_meta(**fields)
SetMeta ==
    \E fields \in MetaFields :
        LET args == Allocate(SortedKeys(DOMAIN fields), fields, heap)
            out == set_meta(meta, args.dict, args.heap)
        IN  /\ Len(returned) < MaxSetMeta
            /\ Len(out.heap) <= MaxHeap
            /\ meta' = out.meta
            /\ heap' = out.heap
            /\ returned' =
                    IF out.err = "" THEN Append(returned, [fields |-> args.dict,
                                                          snapshot |-> out.meta])
                    ELSE returned
            /\ call' = Call("set_meta", "LogMetaManager", "set_meta", 0, <<>>, <<>>,
                            args.dict, NoneTriple)
            /\ result' =
                    IF out.err = ""
                    THEN Outcome("snapshot", out.meta, "", "", <<>>, <<>>)
                    ELSE Outcome("raised", PyNone, out.err, "", <<>>, <<>>)
            /\ UNCHANGED <<types, levels, handleCount, _meta_local, contexts>>

\* tests/test_meta_logger.py: log.info(message, **metadata) at line 41.
SiteMeta ==
    << RunnerFrame,
       Frame("tests.test_meta_logger", "tests/test_meta_logger.py", 41,
             "test_log_meta_json") >>

\* The calls of the MetaAwareLogger: without keyword arguments, with some,
\* and with none that is left in data.
MetaLogCalls ==
    { Call("method", "MetaAwareLogger", "info", 0, SiteMeta, p[1], p[2], NoneTriple) :
        p \in { <<PlainTemplate, NoKwargs>>,
                <<PlainTemplate, ("user" :> PyStr("bob")) @@ ("id" :> PyInt(20))>>,
                <<PlainTemplate, ("user" :> PyNone)>> } }

\* log.info(message, **kwargs) on the MetaAwareLogger
MetaLog ==
    \E c \in MetaLogCalls :
        /\ handleCount < MaxHandled
        /\ LET cls == types[c.type]
               out == log_method(cls, cls.functions[c.method], c.tmpl, c.kwargs,
                                 c.stack, c.active)
           IN  /\ call' = c
               /\ result' = out
               /\ handleCount' = handleCount + Len(out.dispatched)
        /\ UNCHANGED <<types, levels, meta>>
        /\ UNCHANGED metavars

NextMeta == SetMeta \/ MetaLog

(***************************************************************************)
(* Reading and trying to change a snapshot.                                *)
(***************************************************************************)
\* Items a list is grown to.
MaxItems == 2

\* The snapshots the caller holds: those set_meta returned.
Held == {returned[n].snapshot : n \in DOMAIN returned}

\* d = meta.get_meta().to_dict()
ToDict ==
    /\ meta.t = "LogMeta"
    /\ result.kind # "dict"
    /\ LET d == to_dict(meta, heap)
       IN  /\ Len(d.heap) <= MaxHeap
           /\ heap' = d.heap
           /\ result' = Outcome("dict", d.dict, "", "", <<>>, <<>>)
    /\ call' = Call("to_dict", "LogMeta", "to_dict", 0, <<>>, <<>>, NoKwargs, NoneTriple)
    /\ UNCHANGED <<types, levels, meta, handleCount, returned, _meta_local, contexts>>

\* d['user'] = 'eve' on the dict to_dict returned
AssignCopyItem ==
    /\ result.kind = "dict"
    /\ IF "user" \in DOMAIN result.value
       THEN result.value["user"] # PyStr("eve")
       ELSE TRUE
    /\ result' = [result EXCEPT !.value = Update(@, ("user" :> PyStr("eve")))]
    /\ call' = Call("copy_assign", "dict", "__setitem__", 0, <<>>, <<>>,
                    ("user" :> PyStr("eve")), NoneTriple)
    /\ UNCHANGED <<types, levels, meta, handleCount, heap, returned, _meta_local,
                   contexts>>

\* d[key].append('b') on the dict to_dict returned
AppendCopyList ==
    /\ result.kind = "dict"
    /\ \E key \in DOMAIN result.value :
        /\ result.value[key].t = "list"
        /\ Len(heap[result.value[key].i]) < MaxItems
        /\ heap' = [heap EXCEPT ![result.value[key].i] = Append(@, PyStr("b"))]
        /\ call' = Call("copy_append", "dict", "append", 0, <<>>, <<>>,
                        (key :> PyStr("b")), NoneTriple)
        /\ UNCHANGED <<types, levels, meta, handleCount, result, returned,
                       _meta_local, contexts>>

\* snapshot[key] = value: LogMeta defines no __setitem__, nor does Mapping,
\* so the statement raises TypeError.
SetItem ==
    \E m \in Held :
        /\ call.op # "setitem"
        /\ call' = Call("setitem", "LogMeta", "__setitem__", 0, <<>>, <<>>,
                        ("user" :> PyStr("bob")), NoneTriple)
        /\ IF "__setitem__" \in LogMetaAttributes
           THEN /\ returned' =
                        [n \in DOMAIN returned |->
                            IF returned[n].snapshot = m
                            THEN [returned[n] EXCEPT !.snapshot._data =
                                        Update(@, ("user" :> PyStr("bob")))]
                            ELSE returned[n]]
                /\ result' = Outcome("none", PyNone, "", "", <<>>, <<>>)
           ELSE /\ returned' = returned
                /\ result' = Outcome("raised", PyNone, "TypeError", "", <<>>, <<>>)
        /\ UNCHANGED <<types, levels, meta, handleCount, heap, _meta_local, contexts>>

\* snapshot.update({...}): the class has no attribute update, so the
\* expression raises AttributeError.
CallUpdate ==
    \E m \in Held :
        /\ call.op # "update"
        /\ call' = Call("update", "LogMeta", "update", 0, <<>>, <<>>,
                        ("user" :> PyStr("bob")), NoneTriple)
        /\ IF "update" \in LogMetaAttributes
           THEN /\ returned' =
                        [n \in DOMAIN returned |->
                            IF returned[n].snapshot = m
                            THEN [returned[n] EXCEPT !.snapshot._data =
                                        Update(@, ("user" :> PyStr("bob")))]
                            ELSE returned[n]]
                /\ result' = Outcome("none", PyNone, "", "", <<>>, <<>>)
           ELSE /\ returned' = returned
                /\ result' = Outcome("raised", PyNone, "AttributeError", "", <<>>, <<>>)
        /\ UNCHANGED <<types, levels, meta, handleCount, heap, _meta_local, contexts>>

\* snapshot[key].append('b'): __getitem__ returns the list object the
\* snapshot holds (the one the caller passed in, or the one deepcopy made).
AppendItem ==
    \E m \in Held :
      \E key \in __iter__(m) :
        LET got == __getitem__(m, key)
        IN  /\ got.err = ""
            /\ got.value.t = "list"
            /\ Len(heap[got.value.i]) < MaxItems
            /\ heap' = [heap EXCEPT ![got.value.i] = Append(@, PyStr("b"))]
            /\ call' = Call("item_append", "LogMeta", "__getitem__", 0, <<>>, <<>>,
                            (key :> PyStr("b")), NoneTriple)
            /\ result' = Outcome("none", PyNone, "", "", <<>>, <<>>)
            /\ UNCHANGED <<types, levels, meta, handleCount, returned, _meta_local,
                           contexts>>

NextSnapshot ==
    \/ SetMeta
    \/ ToDict
    \/ AssignCopyItem
    \/ AppendCopyList
    \/ SetItem
    \/ CallUpdate
    \/ AppendItem

SpecSnapshot == Init /\ [][NextSnapshot]_vars

(***************************************************************************)
(* tests/example/loggers.py: log_meta_context and the accessor of          *)
(* meta_log.  log_meta_context is a generator made a context manager:      *)
(* entering runs it up to its yield, a normal exit resumes it after the    *)
(* yield, and an exit by an exception raises the exception at the yield.   *)
(***************************************************************************)
\* Frames on _meta_local.meta.
MaxStack == 3

\* The fields given to log_meta_context.
ContextFields ==
    { ("user" :> PyStr("admin")),
      ("name" :> PyStr("Bob")),
      ("user" :> PyStr("bob")) @@ ("id" :> PyInt(1)) }

\* lambda: _meta_local.meta[-1] if getattr(_meta_local, 'meta', None) else '{}'
meta_log_getter ==
    IF _meta_local # <<>> THEN _meta_local[Len(_meta_local)] ELSE PyStr("{}")

\* log_meta_context(**kwargs) up to its yield, with the stack `stack`:
\* [err, stack, heap, value].
log_meta_context(kwargs, stack, h) ==
    LET merged ==
            IF Len(stack) # 0
            THEN LET d == to_dict(stack[Len(stack)], h)
                 IN  [dict |-> Update(d.dict, kwargs), heap |-> d.heap]
            ELSE [dict |-> kwargs, heap |-> h]
        made == LogMeta(merged.dict, merged.heap)
    IN  IF made.err # ""
        THEN [err |-> made.err, stack |-> stack, heap |-> merged.heap,
              value |-> PyNone]
        ELSE [err |-> "", stack |-> Append(stack, made.obj), heap |-> merged.heap,
              value |-> made.obj]

\* log_meta_context after its yield: _meta_local.meta.pop()
log_meta_context_resume(stack) == SubSeq(stack, 1, Len(stack) - 1)

\* An exception raised at the yield: no handler and no finally clause
\* encloses the yield, so the generator ends there and the statement after
\* the yield is not run.
log_meta_context_throw(stack) == stack

\* with log_meta_context(**fields): the block is entered
EnterContext ==
    \E fields \in ContextFields :
        LET out == log_meta_context(fields, _meta_local, heap)
        IN  /\ Len(_meta_local) < MaxStack
            /\ out.err = ""
            /\ _meta_local' = out.stack
            /\ heap' = out.heap
            /\ contexts' = Append(contexts, [fields |-> fields,
                                             depth |-> Len(_meta_local),
                                             entered |-> out.value])
            /\ call' = Call("enter", "log_meta_context", "__enter__", 0, <<>>, <<>>,
                            fields, NoneTriple)
            /\ result' = Outcome("snapshot", out.value, "", "", <<>>, <<>>)
            /\ UNCHANGED <<types, levels, meta, handleCount, returned>>

\* The body of the innermost block ends normally.
ExitContext ==
    /\ contexts # <<>>
    /\ _meta_local' = log_meta_context_resume(_meta_local)
    /\ contexts' = SubSeq(contexts, 1, Len(contexts) - 1)
    /\ call' = Call("exit", "log_meta_context", "__exit__", 0, <<>>, <<>>,
                    contexts[Len(contexts)].fields, NoneTriple)
    /\ result' = Outcome("none", PyNone, "", "", <<>>, <<>>)
    /\ UNCHANGED <<types, levels, meta, handleCount, heap, returned>>

\* The body of the innermost block raises, and the exception is handled
\* outside that block.
RaiseInContext ==
    /\ contexts # <<>>
    /\ _meta_local' = log_meta_context_throw(_meta_local)
    /\ contexts' = SubSeq(contexts, 1, Len(contexts) - 1)
    /\ call' = Call("raise", "log_meta_context", "__exit__", 0, <<>>, <<>>,
                    contexts[Len(contexts)].fields, ExcTuple("ValueError"))
    /\ result' = Outcome("raised", PyNone, "ValueError", "", <<>>, <<>>)
    /\ UNCHANGED <<types, levels, meta, handleCount, heap, returned>>

NextContext == EnterContext \/ ExitContext \/ RaiseInContext

SpecContext == Init /\ [][NextContext]_vars

SpecMeta == Init /\ [][NextMeta]_vars


(***************************************************************************)
(* Properties.  They are stated over the last operation: its inputs in     *)
(* `call` and its outcome in `result`.                                     *)
(***************************************************************************)
IsLogCall == call.op \in {"method", "log"}

\* The level each level method is documented to log at.
DocumentedLevel(method) ==
    CASE method = "debug" -> 10
      [] method = "info" -> 20
      [] method \in {"warning", "warn"} -> 30
      [] method \in {"error", "exception"} -> 40
      [] method \in {"critical", "fatal"} -> 50
      [] method = "audit" -> 99
      [] method = "fail" -> 100
      [] OTHER -> 0

\* The numeric level the last log call asks for.
RequestedLevel ==
    IF call.op = "log" THEN call.level ELSE DocumentedLevel(call.method)

\* The frame that called the entry point.
CallerFrame == call.stack[Len(call.stack)]

\* Whether the backend enables the requested level for the logger named
\* after the caller's module.
CallEnabled == RequestedLevel >= getEffectiveLevel(CallerFrame.module)

\* The keyword arguments of the last call without exc_info.
DataKwargs == [k \in (DOMAIN call.kwargs) \ {"exc_info"} |-> call.kwargs[k]]

Emitted == IsLogCall /\ result.kind = "record"

\* C1: the record of an enabled call from function f at line L of module M is
\* addressed to the logger named M and carries M's file, L and f: the frame
\* resolved is the entry point's immediate caller, never a frame of the
\* logging machinery nor the caller's caller.
C1_RecordNamesImmediateCaller ==
    Emitted =>
        /\ result.value.name = CallerFrame.module
        /\ result.value.pathname = CallerFrame.file
        /\ result.value.lineno = CallerFrame.line
        /\ result.value.funcName = CallerFrame.func
        /\ result.value.name \notin {"logaware.logger", "logging", "_pytest.python"}

C1_Witness ==
    /\ Emitted
    /\ call.stack = SiteMethod
    /\ call.type = "CustomLogger"
    /\ call.method = "fail"
    /\ result.value.name = "tests.example.submodule"
    /\ result.value.lineno = 13
    /\ result.value.funcName = "run"

\* C2 as claimed: any log call whose template cannot be formatted against its
\* keyword arguments raises LogFormatException and dispatches nothing.
C2_AnyUnformattableCallRaises ==
    (IsLogCall /\ StrFormat(call.tmpl, DataKwargs).err # "") =>
        /\ result.kind = "raised"
        /\ result.dispatched = <<>>

\* C2 as amended: a log call at an enabled level, with at least one keyword
\* argument besides exc_info, whose template cannot be formatted against
\* those arguments raises LogFormatException carrying the underlying error,
\* and hands no record to the backend.
C2_EnabledUnformattableCallRaises ==
    (/\ IsLogCall
     /\ CallEnabled
     /\ DOMAIN DataKwargs # {}
     /\ StrFormat(call.tmpl, DataKwargs).err # "") =>
        /\ result.kind = "raised"
        /\ result.error = StrFormat(call.tmpl, DataKwargs).err
        /\ result.error \in {"KeyError", "IndexError", "ValueError", "TypeError"}
        /\ result.dispatched = <<>>
        /\ "handle" \notin Range(result.events)

C2_Witness ==
    /\ IsLogCall
    /\ result.kind = "raised"
    /\ result.error = "IndexError"
    /\ "foo" \in DOMAIN call.kwargs

\* C3: a log call at a level the backend disables for the caller's logger
\* returns None, dispatches no record, formats nothing and does not call
\* the metadata accessor.
C3_DisabledCallIsNoOp ==
    (IsLogCall /\ ~CallEnabled) =>
        /\ result.kind = "none"
        /\ result.value = PyNone
        /\ result.dispatched = <<>>
        /\ "_format_message" \notin Range(result.events)
        /\ "_meta_getter" \notin Range(result.events)
        /\ "handle" \notin Range(result.events)

C3_Witness ==
    /\ IsLogCall
    /\ ~CallEnabled
    /\ call.type = "MetaAwareLogger"
    /\ DOMAIN DataKwargs # {}
    /\ StrFormat(call.tmpl, DataKwargs).err # ""
    /\ result.kind = "none"


\* Whether the template of the last call formats: used verbatim without
\* keyword arguments, substituted without error with them.
Formattable ==
    DOMAIN DataKwargs = {} \/ StrFormat(call.tmpl, DataKwargs).err = ""

\* The message of the last call after substitution.
ExpectedMessage ==
    IF DOMAIN DataKwargs = {} THEN TemplateText(call.tmpl)
    ELSE StrFormat(call.tmpl, DataKwargs).text

\* The display name the registry of type T gives to a numeric level.
RegisteredName(T, v) ==
    IF \E a \in Range(types[T].attrs) : a.kind = "LogLevel" /\ a.val.level = v
    THEN (CHOOSE a \in Range(types[T].attrs) :
                a.kind = "LogLevel" /\ a.val.level = v).val.name
    ELSE IF v \in {10, 20, 30, 40, 50}
    THEN (CHOOSE a \in Range(AwareLoggerBody) :
                a.kind = "LogLevel" /\ a.val.level = v).val.name
    ELSE "Level " \o ToString(v)

\* C4 as claimed: every log call at an enabled level dispatches exactly one
\* record and returns it.
C4_EveryEnabledCallDispatchesOnce ==
    (IsLogCall /\ CallEnabled) =>
        /\ result.kind = "record"
        /\ result.dispatched = <<result.value>>

\* C4 as amended: every log call at an enabled level whose message formats
\* hands exactly one record to the backend's handle step, after the level
\* name is overridden and before it returns, and returns that same record,
\* which carries the requested numeric level and the substituted message.
C4_FormattedEnabledCallDispatchesOnce ==
    [][ (call'.op \in {"method", "log"} /\ CallEnabled' /\ Formattable') =>
            /\ result'.kind = "record"
            /\ handleCount' = handleCount + 1
            /\ result'.dispatched = <<result'.value>>
            /\ result'.value.levelno = RequestedLevel'
            /\ result'.value.msg = ExpectedMessage'
            /\ result'.dispatched[1].levelname
                    = RegisteredName(call'.type, RequestedLevel')
            /\ \E i, j \in DOMAIN result'.events :
                    /\ i < j
                    /\ j = Len(result'.events)
                    /\ result'.events[i] = "levelname"
                    /\ result'.events[j] = "handle"
                    /\ \A k \in DOMAIN result'.events :
                            result'.events[k] = "handle" => k = j
      ]_vars

C4_Witness ==
    /\ Emitted
    /\ call.type = "CustomLogger"
    /\ RequestedLevel = 99
    /\ handleCount = 2
    /\ result.dispatched = <<result.value>>
    /\ result.value.levelname = "AUDIT"

\* C5: with no keyword arguments besides exc_info the record's message is
\* the template verbatim, whatever placeholders it holds, and nothing is
\* raised; otherwise it is the brace-style substitution of the template
\* against all of them, empty-valued ones included.
C5_MessageVerbatimOrSubstituted ==
    /\ (IsLogCall /\ CallEnabled /\ DOMAIN DataKwargs = {}) =>
            /\ result.kind = "record"
            /\ result.value.msg = TemplateText(call.tmpl)
    /\ (Emitted /\ DOMAIN DataKwargs # {}) =>
            result.value.msg = StrFormat(call.tmpl, DataKwargs).text
    /\ (Emitted /\ TemplateText(call.tmpl) = "args {foo} {bar}") =>
            /\ DataKwargs = ("foo" :> PyInt(1)) @@ ("bar" :> PyInt(2))
                    => result.value.msg = "args 1 2"
            /\ DataKwargs = ("foo" :> PyNone) @@ ("bar" :> PyStr(""))
                    => result.value.msg = "args None "
            /\ DOMAIN DataKwargs = {} => result.value.msg = "args {foo} {bar}"
    /\ (Emitted /\ TemplateText(call.tmpl) = "set {{x}} {foo}") =>
            /\ DataKwargs = ("foo" :> PyStr("a")) => result.value.msg = "set {x} a"
            /\ DOMAIN DataKwargs = {} => result.value.msg = "set {{x}} {foo}"

C5_Witness ==
    /\ Emitted
    /\ TemplateText(call.tmpl) = "args {foo} {bar}"
    /\ DataKwargs = ("foo" :> PyNone) @@ ("bar" :> PyStr(""))
    /\ result.value.msg = "args None "

\* The keys of the last call's keyword arguments, exc_info aside, whose value
\* is neither None nor the empty string.
NonEmptyKeys ==
    { k \in DOMAIN DataKwargs :
        /\ DataKwargs[k].t # "none"
        /\ ~(DataKwargs[k].t = "str" /\ DataKwargs[k].s = "") }

\* C6: the data of an emitted record is exactly the caller's keyword
\* arguments minus exc_info whose value is neither None nor '' (0 and False
\* are kept); the data key is absent when there are none.
C6_DataIsNonEmptyKwargs ==
    Emitted =>
        IF NonEmptyKeys = {}
        THEN "data" \notin DOMAIN result.value.extra
        ELSE /\ "data" \in DOMAIN result.value.extra
             /\ DOMAIN result.value.extra["data"] = NonEmptyKeys
             /\ \A k \in NonEmptyKeys :
                    result.value.extra["data"][k] = call.kwargs[k]

C6_Witness ==
    /\ Emitted
    /\ call.kwargs = ("foo" :> PyInt(1)) @@ ("bar" :> PyNone)
    /\ DOMAIN result.value.extra["data"] = {"foo"}

\* C7: a falsy exc_info attaches no traceback; a truthy non-tuple one is
\* replaced by the active exception state; an exception tuple is used as
\* given; and the exc_info of a record is never the (None, None, None)
\* triple, which becomes None.
C7_ExcInfoNormalized ==
    Emitted =>
        /\ result.value.exc_info # NoneTriple
        /\ result.dispatched[1].exc_info # NoneTriple
        /\ "exc_info" \in DOMAIN call.kwargs =>
            LET given == call.kwargs["exc_info"]
            IN  /\ ~Truthy(given) => ~Truthy(result.value.exc_info)
                /\ (Truthy(given) /\ given.t # "tuple") =>
                        result.value.exc_info =
                            IF call.active = NoneTriple THEN PyNone ELSE call.active
                /\ (given.t = "tuple" /\ given # NoneTriple) =>
                        result.value.exc_info = given
                /\ given = NoneTriple => result.value.exc_info = PyNone

C7_Witness ==
    /\ Emitted
    /\ "exc_info" \in DOMAIN call.kwargs
    /\ call.kwargs["exc_info"] = PyInt(1)
    /\ call.active = NoneTriple
    /\ result.value.exc_info = PyNone

TracebackMethods == {"exception", "fail"}

C10_LevelNameResolved ==
    /\ call.op = "get_level_name" =>
            /\ result.kind = "name"
            /\ result.text = RegisteredName(call.type, call.level)
            /\ (call.type = "CustomLogger" /\ call.level = 99) => result.text = "AUDIT"
            /\ (call.type = "CustomLogger" /\ call.level = 100) => result.text = "FAIL"
            /\ (call.type # "CustomLogger" /\ call.level = 99) => result.text = "Level 99"
            /\ call.level = 5 => result.text = "Level 5"
            /\ call.level = 30 => result.text = "WARNING"
    /\ Emitted =>
            /\ result.value.levelname
                    = RegisteredName(call.type, result.value.levelno)
            /\ result.dispatched[1].levelname = result.value.levelname

C10_Witness ==
    /\ Emitted
    /\ call.op = "log"
    /\ call.type = "MetaAwareLogger"
    /\ result.value.levelno = 100
    /\ result.value.levelname = "Level 100"


\* The LogLevels type T declares under numeric value v, and the values it
\* declares.
DeclaredBy(T, v) ==
    { a.val : a \in { x \in Range(types[T].attrs) :
                        x.kind = "LogLevel" /\ x.val.level = v } }
DeclaredValues(T) ==
    { a.val.level : a \in { x \in Range(types[T].attrs) : x.kind = "LogLevel" } }

\* C9: the registry of every type is the union of its ancestors' registries
\* overridden, on a collision of numeric values, by the levels the type
\* declares itself, the most derived declaration winning; base levels stay
\* resolvable on a derived type.
C9_RegistryMostDerivedWins ==
    \A T \in DOMAIN types :
        LET anc == Ancestors(T, types)
            reg == types[T]._log_levels
        IN  /\ DOMAIN reg =
                    DeclaredValues(T) \cup
                    UNION { DOMAIN types[A]._log_levels : A \in anc }
            /\ \A v \in DOMAIN reg :
                    IF DeclaredBy(T, v) # {}
                    THEN reg[v] \in DeclaredBy(T, v)
                    ELSE \E A \in anc :
                            /\ reg[v] \in DeclaredBy(A, v)
                            /\ ~ \E B \in anc :
                                    /\ B # A
                                    /\ A \in Ancestors(B, types)
                                    /\ DeclaredBy(B, v) # {}

\* The parts of C9 that hold of the code: the values registered are those
\* declared by the type or registered by an ancestor, a value the type
\* declares maps to its own declaration, and defining a type leaves the
\* registries of the existing types as they were.
C9_OwnDeclarationsWin ==
    \A T \in DOMAIN types :
        LET reg == types[T]._log_levels
        IN  /\ DOMAIN reg =
                    DeclaredValues(T) \cup
                    UNION { DOMAIN types[A]._log_levels : A \in Ancestors(T, types) }
            /\ \A v \in DeclaredValues(T) : reg[v] \in DeclaredBy(T, v)
C9_ExistingRegistriesKept ==
    [][ \A T \in DOMAIN types :
            /\ T \in DOMAIN types'
            /\ types'[T]._log_levels = types[T]._log_levels ]_vars


\* C11: every record emitted through MetaAwareLogger carries a meta key,
\* with or without a data key, whose value is what the metadata accessor
\* returns at that call: the snapshot current at the call, None before any
\* set_meta, never the snapshot of an earlier call.
C11_MetaIsCurrentSnapshot ==
    (Emitted /\ call.type = "MetaAwareLogger") =>
        /\ "meta" \in DOMAIN result.value.extra
        /\ result.value.extra["meta"] = meta
        /\ result.dispatched[1].extra["meta"] = meta
        /\ returned = <<>> => result.value.extra["meta"] = PyNone
        /\ returned # <<>> =>
                result.value.extra["meta"] = returned[Len(returned)].snapshot
        /\ "_meta_getter" \in Range(result.events)

C11_Witness ==
    /\ Emitted
    /\ call.type = "MetaAwareLogger"
    /\ Len(returned) = 2
    /\ returned[1].snapshot # returned[2].snapshot
    /\ handleCount = 2
    /\ "data" \notin DOMAIN result.value.extra
    /\ result.value.extra["meta"] = returned[2].snapshot


\* The fields of a mapping with every list replaced by its items, so that
\* mappings holding equal lists at different addresses are equal.
Contents(d) ==
    [k \in DOMAIN d |->
        IF d[k].t = "list"
        THEN [t |-> "list", i |-> 0, s |-> "", items |-> heap[d[k].i]]
        ELSE d[k]]

RECURSIVE MergeAll(_)
\* The right-biased merge of the fields of a sequence of set_meta calls.
MergeAll(calls) ==
    IF calls = <<>> THEN NoKwargs
    ELSE
        LET front == MergeAll(SubSeq(calls, 1, Len(calls) - 1))
            last == Contents(calls[Len(calls)].fields)
        IN  [k \in (DOMAIN front) \cup (DOMAIN last) |->
                IF k \in DOMAIN last THEN last[k] ELSE front[k]]

\* C12: before any set_meta, get_meta returns None; after successful set_meta
\* calls it returns a snapshot whose mapping is the right-biased merge of the
\* calls' fields in call order: later values override, earlier keys are kept.
C12_GetMetaIsMergeOfCalls ==
    /\ returned = <<>> => get_meta = PyNone
    /\ returned # <<>> =>
            /\ get_meta.t = "LogMeta"
            /\ get_meta = returned[Len(returned)].snapshot
            /\ Contents(get_meta._data) = MergeAll(returned)
            /\ \A k \in __iter__(get_meta) :
                    \E n \in DOMAIN returned :
                        /\ k \in DOMAIN returned[n].fields
                        /\ \A later \in DOMAIN returned :
                                later > n => k \notin DOMAIN returned[later].fields
                        /\ Contents(get_meta._data)[k] = Contents(returned[n].fields)[k]

C12_Witness ==
    /\ Len(returned) = 2
    /\ returned[1].fields = ("user" :> PyStr("bob")) @@ ("id" :> PyInt(1))
    /\ returned[2].fields = ("user" :> PyStr("foo"))
    /\ get_meta._data = ("user" :> PyStr("foo")) @@ ("id" :> PyInt(1))


\* Whether some field holds a value JSON cannot represent.
Unserializable(fields) == \E k \in DOMAIN fields : fields[k].t = "object"

\* C13: set_meta with a value that cannot be serialized raises TypeError at
\* the call and leaves the manager's snapshot, and the snapshots returned so
\* far, as they were; so no snapshot ever holds such a value.
C13_UnserializableFailsAtSetMeta ==
    [][ (call'.op = "set_meta" /\ Unserializable(call'.kwargs)) =>
            /\ result'.kind = "raised"
            /\ result'.error = "TypeError"
            /\ meta' = meta
            /\ returned' = returned
            /\ (meta'.t = "LogMeta" => ~Unserializable(meta'._data))
      ]_vars

C13_Witness ==
    /\ call.op = "set_meta"
    /\ Unserializable(call.kwargs)
    /\ result.kind = "raised"
    /\ Len(returned) = 1
    /\ meta = returned[1].snapshot
    /\ meta._data = ("user" :> PyStr("foo"))


\* The snapshots constructed so far.
Snapshots ==
    {returned[n].snapshot : n \in DOMAIN returned}
    \cup (IF meta.t = "LogMeta" THEN {meta} ELSE {})

\* The canonical JSON of some mappings, as text and as UTF-8 bytes.
ExpectedJson ==
    { [data |-> NoKwargs,
       text |-> <<Ascii("{}")>>,
       bytes |-> <<Ascii("{}")>>],
      [data |-> ("user" :> PyNone) @@ ("name" :> PyStr("")),
       text |-> <<Ascii("{}")>>,
       bytes |-> <<Ascii("{}")>>],
      [data |-> ("user" :> PyStr("bob")) @@ ("version" :> PyFloat("1.1"))
                @@ ("empty" :> PyNone),
       text |-> <<Ascii("{\"user\":\"bob\", \"version\":1.1}")>>,
       bytes |-> <<Ascii("{\"user\":\"bob\", \"version\":1.1}")>>],
      [data |-> ("user" :> PyStr("bob")) @@ ("id" :> PyInt(1)),
       text |-> <<Ascii("{\"id\":1, \"user\":\"bob\"}")>>,
       bytes |-> <<Ascii("{\"id\":1, \"user\":\"bob\"}")>>],
      [data |-> ("name" :> PyUStr(1)) @@ ("count" :> PyInt(100)),
       text |-> <<Ascii("{\"count\":100, \"name\":\"b"), Char(332), Char(332),
                  Ascii("k\"}")>>,
       bytes |-> <<Ascii("{\"count\":100, \"name\":\"b"), Char(197), Char(140),
                   Char(197), Char(140), Ascii("k\"}")>>],
      [data |-> ("name" :> PyUStr(1)) @@ ("count" :> PyInt(100))
                @@ ("user" :> PyStr("foo")),
       text |-> <<Ascii("{\"count\":100, \"name\":\"b"), Char(332), Char(332),
                  Ascii("k\", \"user\":\"foo\"}")>>,
       bytes |-> <<Ascii("{\"count\":100, \"name\":\"b"), Char(197), Char(140),
                   Char(197), Char(140), Ascii("k\", \"user\":\"foo\"}")>>],
      [data |-> ("user" :> PyStr("bob")) @@ ("version" :> PyFloat("1.1"))
                @@ ("empty" :> PyNone) @@ ("name" :> PyUStr(1))
                @@ ("count" :> PyInt(100)),
       text |-> <<Ascii("{\"count\":100, \"name\":\"b"), Char(332), Char(332),
                  Ascii("k\", \"user\":\"bob\", \"version\":1.1}")>>,
       bytes |-> <<Ascii("{\"count\":100, \"name\":\"b"), Char(197), Char(140),
                   Char(197), Char(140),
                   Ascii("k\", \"user\":\"bob\", \"version\":1.1}")>>] }

\* Whether a text holds a non-ASCII character.
HasNonAscii(text) == \E n \in DOMAIN text : text[n].cp # 0

\* C14: the canonical JSON of a snapshot holds exactly the entries whose
\* value is neither None nor '', keys ascending, ', ' between items, ':'
\* between key and value, non-ASCII characters as they are; the bytes form
\* is the UTF-8 encoding of the text form.
C14_CanonicalJson ==
    \A m \in Snapshots :
        /\ \A e \in ExpectedJson :
                m._data = e.data =>
                    /\ __str__(m) = e.text
                    /\ __bytes__(m) = e.bytes
        /\ decode_utf8(__bytes__(m)) = __str__(m)
        /\ ~HasNonAscii(__str__(m)) => __bytes__(m) = __str__(m)
        /\ (\A k \in DOMAIN m._data : m._data[k] \in {PyNone, PyStr("")})
                => __str__(m) = <<Ascii("{}")>>
        /\ (\E k \in DOMAIN m._data : m._data[k].t = "str" /\ m._data[k].i # 0)
                => HasNonAscii(__str__(m))

C14_Witness ==
    /\ meta.t = "LogMeta"
    /\ DOMAIN meta._data = {"count", "empty", "name", "user", "version"}
    /\ meta._data["empty"] = PyNone
    /\ HasNonAscii(__str__(meta))
    /\ __bytes__(meta) # __str__(meta)


\* C15: no key of a snapshot has the value None or '': the keys of its
\* mapping view (lookup, length, iteration, to_dict) are the keys of its
\* canonical JSON, those whose value is not empty.
C15_EmptyEntriesExcluded ==
    \A m \in Snapshots :
        LET jsonKeys == {k \in DOMAIN m._data : m._data[k] \notin {PyNone, PyStr("")}}
        IN  /\ __iter__(m) = jsonKeys
            /\ __len__(m) = Cardinality(jsonKeys)
            /\ DOMAIN to_dict(m, heap).dict = jsonKeys
            /\ \A k \in {"user", "name", "empty"} :
                    __getitem__(m, k).err = "" <=> k \in jsonKeys


\* The part of C15 that holds: the mapping view of a snapshot holds every
\* field the snapshot was given, the empty-valued ones too.
C15_MappingKeepsAllKeys ==
    \A n \in DOMAIN returned :
        /\ DOMAIN returned[n].fields \subseteq __iter__(returned[n].snapshot)
        /\ \A k \in DOMAIN returned[n].fields :
                __getitem__(returned[n].snapshot, k).value = returned[n].fields[k]

\* C16: the key/value pairs and the cached JSON of a snapshot never change
\* once it is constructed, whatever is done afterwards (item assignment,
\* update, later set_meta calls, changes to what to_dict returned): the
\* cached JSON is always the canonical serialization of the snapshot's data.
C16_SnapshotNeverChanges ==
    \A m \in Snapshots :
        __str__(m) = dumps(NonEmpty(m._data), heap, ", ", ":", FALSE).text

\* The parts of C16 that hold: item assignment raises TypeError, update
\* raises AttributeError, and neither they, nor a later set_meta, nor
\* to_dict and changes to the mapping it returned, change the data of a
\* snapshot returned before.
C16_GuardedPathsKeepSnapshots ==
    [][ call'.op \in {"set_meta", "to_dict", "copy_assign", "copy_append",
                      "setitem", "update"} =>
            /\ \A n \in DOMAIN returned :
                    /\ n \in DOMAIN returned'
                    /\ returned'[n].snapshot = returned[n].snapshot
                    /\ Contents(returned[n].snapshot._data)'
                            = Contents(returned[n].snapshot._data)
            /\ call'.op = "setitem" =>
                    result'.kind = "raised" /\ result'.error = "TypeError"
            /\ call'.op = "update" =>
                    result'.kind = "raised" /\ result'.error = "AttributeError"
      ]_vars


\* C17: metadata contexts are a stack.  The current metadata is the snapshot
\* of the innermost block being executed, which is the enclosing block's
\* fields overridden by its own, and the string '{}' outside of every block;
\* the depth of the stack is the number of blocks being executed, whether
\* the blocks before ended normally or by an exception.
C17_ContextsAreAStack ==
    /\ Len(_meta_local) = Len(contexts)
    /\ contexts = <<>> => meta_log_getter = PyStr("{}")
    /\ contexts # <<>> =>
            /\ meta_log_getter.t = "LogMeta"
            /\ meta_log_getter = contexts[Len(contexts)].entered
            /\ \A n \in DOMAIN contexts :
                    /\ contexts[n].depth = n - 1
                    /\ contexts[n].entered._data =
                            IF n = 1 THEN contexts[n].fields
                            ELSE Update(contexts[n - 1].entered._data,
                                        contexts[n].fields)

\* The parts of C17 that hold: entering a block pushes the fields of the
\* top of the stack overridden by the new fields, and a normal exit pops one
\* frame.
C17_EnterPushesExitPops ==
    [][ /\ call'.op = "enter" =>
            /\ Len(_meta_local') = Len(_meta_local) + 1
            /\ SubSeq(_meta_local', 1, Len(_meta_local)) = _meta_local
            /\ meta_log_getter'._data =
                    IF _meta_local = <<>> THEN call'.kwargs
                    ELSE Update(meta_log_getter._data, call'.kwargs)
        /\ call'.op = "exit" =>
            /\ Len(_meta_local') = Len(_meta_local) - 1
            /\ _meta_local' = SubSeq(_meta_local, 1, Len(_meta_local) - 1)
      ]_vars


\* C18: isEnabledFor(level), called from a function of module M, asks the
\* backend about the logger named M, the logger a log call from the same
\* site is addressed to: it is true exactly when a log call at that level
\* from the same site would emit a record.
C18_QueryResolvesAsLogCall ==
    call.op = "isEnabledFor" =>
        /\ result.kind = "bool"
        /\ result.value =
                PyBool(isEnabledFor_backend(CallerFrame.module, call.level))
        /\ Truthy(result.value) <=>
                log(types[call.type], call.level, PlainTemplate, NoKwargs,
                    call.stack, NoneTriple).kind = "record"

\* What holds instead: the query is answered for the logger named after the
\* module of the caller's caller, the frame below the one a log call
\* resolves.
C18_QueryResolvesCallersCaller ==
    call.op = "isEnabledFor" =>
        /\ result.kind = "bool"
        /\ result.value =
                PyBool(isEnabledFor_backend(call.stack[Len(call.stack) - 1].module,
                                            call.level))

====
